---- MODULE Spec2Model ----
(***************************************************************************)
(* Model of the git deploy adapter (src/deploy-adapter.py): one invocation *)
(* of main(), from argument parsing to process exit.                       *)
(*                                                                         *)
(* External commands (git) and HTTP requests may fail; every call of run() *)
(* draws its exit code nondeterministically.  Operations on the temporary  *)
(* files the process itself created (mkstemp, mkdtemp, os.remove, rmtree)  *)
(* are taken to succeed.  Status responses are JSON objects whose status   *)
(* fields, when present, are strings (src/deploy-adapter.py:29,205).       *)
(***************************************************************************)
EXTENDS Integers, Sequences, FiniteSets, TLC

VARIABLES
    args,           \* parsed command line (parse_args)
    git_ssh_key,    \* TRUE iff GIT_SSH_KEY / GIT_SSH_KEY_BASE64 is non-empty
    key_material,   \* the characters of that environment value, <<>> if unset
    artifactEntries,\* top-level entries of the artifact directory
    priorEntries,   \* top-level entries of the remote branch that is cloned
    worktreeDirty,  \* git status --porcelain prints something
    artifactPresent,\* Path(artifact_dir).exists()
    remotes,        \* remote names configured in the local repository
    fs,             \* temporary paths of this run that exist on disk
    keyfile,        \* bytes and permission bits of the key file as written
    tree,           \* top-level entries of the clone's working tree
    dagger,         \* a run of dagger.py: its inputs, position and echo
    conc,           \* two concurrent runs of deploy-adapter.py on one host
    pc,             \* position of the single thread of control
    raised,         \* the exception propagating, or NoExc
    exitCode,       \* <<>> while running, <<status>> once the process exited
    ssh_key_path,   \* main's ssh_key_path
    tmp,            \* git_push_artifact_dir's tmp
    cmds,           \* what run() echoed and executed, in order
    now,            \* time.time(), seconds since the run started
    deadline,       \* poll_status_url's deadline
    last,           \* poll_status_url's last: <<>> is None, <<j>> a payload
    gets,           \* outcome of every requests.get so far, in order
    sleeps,         \* number of time.sleep(interval) calls so far
    outcome,        \* how poll_status_url ended
    result          \* what poll_status_url returned: <<>> is None

inputs == <<args, git_ssh_key, key_material, worktreeDirty, artifactPresent,
            artifactEntries, priorEntries, dagger, conc>>
pollv  == <<now, deadline, last, gets, sleeps, outcome, result>>
vars   == <<args, git_ssh_key, key_material, worktreeDirty, artifactPresent,
            artifactEntries, priorEntries, remotes, fs, keyfile, tree, pc,
            raised, exitCode, ssh_key_path, tmp, cmds, now, deadline, last,
            gets, sleeps, outcome, result, dagger, conc>>
\* the variables of the single run of deploy-adapter.py
adapter == <<args, git_ssh_key, key_material, worktreeDirty, artifactPresent,
             artifactEntries, priorEntries, remotes, fs, keyfile, tree, pc,
             raised, exitCode, ssh_key_path, tmp, cmds, now, deadline, last,
             gets, sleeps, outcome, result>>

----------------------------------------------------------------------------
(* Bounds of the model *)

\* longest a single GET takes, in seconds (requests' timeout caps it)
MaxReqDur == 1
\* largest --status-timeout tried besides 0 and 6
MaxTimeout == 7

----------------------------------------------------------------------------
(* Values *)

None == "None"
\* an exception is <<message>> or <<message, payload>>
NoExc == <<>>

\* poll_status_url's default interval; main never overrides it
Interval == 3

remote_name == "backend_im_deploy"
KeyPath == "git_deploy_key_"
ClonePath == "deploy_clone_"
Branch == "main"
RemoteUrl == "git@backend.im:myorg/myapp.git"

Timeouts == {0, 6, MaxTimeout}
ReqDurations == {0, MaxReqDur}
ExitCodes == {0, 1}

\* Strings whose characters matter are sequences of one-character strings.
NoneStr == <<"None">>
EmptyStr == <<>>
s_pending == <<"p", "e", "n", "d", "i", "n", "g">>
s_done == <<"d", "o", "n", "e">>
s_DONE == <<"D", "O", "N", "E">>
s_success == <<"s", "u", "c", "c", "e", "s", "s">>
s_Success == <<"S", "u", "c", "c", "e", "s", "s">>
s_ready == <<"r", "e", "a", "d", "y">>
s_failed == <<"f", "a", "i", "l", "e", "d">>
s_Failed == <<"F", "a", "i", "l", "e", "d">>
s_error == <<"e", "r", "r", "o", "r">>

UpperChars == <<"A", "B", "C", "D", "E", "F", "G", "H", "I", "J", "K", "L", "M",
                "N", "O", "P", "Q", "R", "S", "T", "U", "V", "W", "X", "Y", "Z">>
LowerChars == <<"a", "b", "c", "d", "e", "f", "g", "h", "i", "j", "k", "l", "m",
                "n", "o", "p", "q", "r", "s", "t", "u", "v", "w", "x", "y", "z">>

\* str.lower()
ToLower == [c \in {UpperChars[i] : i \in DOMAIN UpperChars} |->
              LowerChars[CHOOSE i \in DOMAIN UpperChars : UpperChars[i] = c]]
LowerChar(c) == IF c \in DOMAIN ToLower THEN ToLower[c] ELSE c
Lower(s) == [i \in 1..Len(s) |-> LowerChar(s[i])]

\* A decoded response body: the three fields the poller looks at; NoneStr
\* is what dict.get returns for a field that is absent.
Body(st, se, ds) == [status |-> st, state |-> se, deploy_status |-> ds]
Payloads ==
    { Body(s_pending, NoneStr, NoneStr),
      Body(NoneStr, NoneStr, NoneStr),
      Body(s_DONE, NoneStr, NoneStr),
      Body(NoneStr, s_ready, NoneStr),
      Body(NoneStr, NoneStr, s_Success),
      Body(s_Failed, NoneStr, NoneStr),
      Body(NoneStr, s_error, NoneStr),
      Body(EmptyStr, s_done, NoneStr),
      Body(s_pending, s_failed, NoneStr) }

\* What one requests.get came to: a RequestException (connection error,
\* timeout, HTTP error status) or a decoded body with the status line 183
\* prints for it
GotError == <<"RequestException">>
Got(j, status) == <<"response", j, status>>
IsResponse(g) == g[1] = "response"

----------------------------------------------------------------------------
(* write_ssh_key_if_provided: strip, base64.b64decode, the marker test *)

Whitespace == {" ", "\n", "\t"}

\* str.strip()
RECURSIVE LStrip(_)
LStrip(s) == IF s # <<>> /\ s[1] \in Whitespace THEN LStrip(Tail(s)) ELSE s
RECURSIVE RStrip(_)
RStrip(s) ==
    IF s # <<>> /\ s[Len(s)] \in Whitespace THEN RStrip(SubSeq(s, 1, Len(s) - 1)) ELSE s
Strip(s) == RStrip(LStrip(s))

Digits == <<"0", "1", "2", "3", "4", "5", "6", "7", "8", "9">>
B64Alphabet == UpperChars \o LowerChars \o Digits \o <<"+", "/">>
B64Index == [c \in {B64Alphabet[i] : i \in DOMAIN B64Alphabet} |->
               CHOOSE i \in DOMAIN B64Alphabet : B64Alphabet[i] = c]
Sextet(c) == B64Index[c] - 1

\* str.encode(): the ASCII code of each character
Ascii(c) ==
    IF c \in DOMAIN B64Index
    THEN LET i == B64Index[c]
         IN  IF i <= 26 THEN 64 + i
             ELSE IF i <= 52 THEN 96 + (i - 26)
             ELSE IF i <= 62 THEN 47 + (i - 52)
             ELSE IF i = 63 THEN 43 ELSE 47
    ELSE CASE c = "=" -> 61
           [] c = "-" -> 45
           [] c = " " -> 32
           [] c = "\n" -> 10
           [] c = "\t" -> 9
Encode(s) == [i \in 1..Len(s) |-> Ascii(s[i])]

\* binascii.a2b_base64 in its default, non-strict mode, one pass over the
\* characters: those outside the alphabet are skipped; quad_pos is the
\* number of data characters read so far modulo 4; pads counts the "="
\* read since the last data character; an "=" that completes the padding
\* of the open quad ends the data; data that stops inside a quad is an
\* error (binascii.Error)
IsData(c) == c \in DOMAIN B64Index
QuadPos(s, i) == Cardinality({k \in 1..(i - 1) : IsData(s[k])}) % 4
Pads(s, i) ==
    Cardinality({k \in 1..i : /\ s[k] = "="
                              /\ \A d \in (k + 1)..(i - 1) : ~IsData(s[d])})
EndsData(s, i) ==
    s[i] = "=" /\ QuadPos(s, i) >= 2 /\ QuadPos(s, i) + Pads(s, i) >= 4
B64Scan(s) ==
    LET ends == {i \in DOMAIN s : EndsData(s, i)}
        stop == IF ends = {} THEN Len(s) + 1
                ELSE CHOOSE i \in ends : \A k \in ends : i <= k
        data == SelectSeq(SubSeq(s, 1, stop - 1), IsData)
    IN  [padded |-> ends # {}, sext |-> [k \in DOMAIN data |-> Sextet(data[k])]]

B64Bytes(sext) ==
    [k \in 1..((Len(sext) * 6) \div 8) |->
        LET start == 8 * (k - 1)
            a == (start \div 6) + 1
            o == start % 6
        IN  IF o = 0 THEN sext[a] * 4 + (sext[a + 1] \div 16)
            ELSE IF o = 2 THEN (sext[a] % 16) * 16 + (sext[a + 1] \div 4)
            ELSE (sext[a] % 4) * 64 + sext[a + 1]]

\* base64.b64decode(candidate): ok is FALSE where it raises
B64Decode(s) ==
    LET r == B64Scan(s)
    IN  [ok |-> r.padded \/ Len(r.sext) % 4 = 0, bytes |-> B64Bytes(r.sext)]

Marker == <<66, 69, 71, 73, 78>>
\* the slice [:50] of line 88
MarkerWindow == 50
Contains(bytes, m) ==
    \E i \in 1..(Len(bytes) - Len(m) + 1) : SubSeq(bytes, i, i + Len(m) - 1) = m
Prefix(bytes, n) == SubSeq(bytes, 1, IF Len(bytes) < n THEN Len(bytes) ELSE n)

\* lines 82-92: the bytes that are written
KeyBytes(key_b64_or_raw) ==
    LET candidate == Strip(key_b64_or_raw)
        decoded == B64Decode(candidate)
    IN  IF decoded.ok /\ Contains(Prefix(decoded.bytes, MarkerWindow), Marker)
        THEN decoded.bytes
        ELSE Encode(candidate)

NoFile == [content |-> <<>>, mode |-> "absent"]
OwnerOnly == "0600"

\* key material tried: a base64-encoded key, a raw key, text that decodes
\* to something else, text that does not decode, and a base64-encoded key
\* whose marker lies behind the first MarkerWindow bytes
k_b64 == <<"Q", "k", "V", "H", "S", "U", "4", "=">>
k_raw == <<"-", "B", "E", "G", "I", "N", "-">>
k_other == <<"Q", "U", "J", "D">>
k_unpadded == <<"Q", "k", "V", "H", "S", "U", "4">>
k_dash == <<"-">>
RECURSIVE Repeat(_, _)
Repeat(s, n) == IF n = 0 THEN <<>> ELSE s \o Repeat(s, n - 1)
k_late == Repeat(<<"Q", "U", "F", "B">>, (MarkerWindow \div 3) + 1) \o k_b64
KeyCores == {<<>>, k_b64, k_raw, k_other, k_unpadded, k_dash, k_late}
KeyInputs ==
    { lead \o core \o trail :
        lead \in {<<>>, <<" ">>, <<"\n">>},
        core \in KeyCores,
        trail \in {<<>>, <<"\n">>, <<" ", "\n">>} } \ {<<>>}

\* entries of the clone and of the artifact directory
GitDir == ".git"
PriorTrees == {{"app.js"}, {"app.js", "old.txt"}}
ArtifactTrees == {{"app.js"}, {"index.html", "app.js"}, {GitDir, "app.js"}}
PolledPrior == {"app.js", "old.txt"}
PolledArtifact == {"index.html", "app.js"}

----------------------------------------------------------------------------
(* run(): echo, execute, raise on nonzero exit when check is set *)

RunRaisesNever(check, rc) == FALSE
RunRaises(check, rc) == rc # 0 /\ check

\* The GIT_SSH_COMMAND of the env built at lines 103-108 and 128-130: unset
\* (<<>>) unless ssh_key_path is set
GitSshCommandUnset(key_path) == <<>>
GitSshCommand(key_path) ==
    IF key_path # None
    THEN <<"ssh", "-i", key_path, "-o", "StrictHostKeyChecking=no">>
    ELSE <<>>
\* run(cmd) without env=: the child inherits os.environ as it is
InheritedEnv == <<>>

\* gsc is the GIT_SSH_COMMAND the command ran with, rc its exit code
Echoed(argv, gsc, rc) == Append(cmds, [argv |-> argv, gsc |-> gsc, rc |-> rc])
CommandFailed == <<"Command failed">>

\* list.insert(i, x) with a 0-based index
ListInsert(l, i, x) == SubSeq(l, 1, i) \o <<x>> \o SubSeq(l, i + 1, Len(l))

push_ref == "HEAD:refs/heads/main"
PushCmdForceLast(dest, force) ==
    LET push_cmd == <<"git", "push", dest, push_ref>>
    IN  IF force THEN Append(push_cmd, "--force") ELSE push_cmd
PushCmd(dest, force) ==
    LET push_cmd == <<"git", "push", dest, push_ref>>
    IN  IF force THEN ListInsert(push_cmd, 2, "--force") ELSE push_cmd

IsPush(c) == Len(c.argv) >= 2 /\ c.argv[1] = "git" /\ c.argv[2] = "push"
IsRemoteAdd(c) == Len(c.argv) >= 3 /\ c.argv[2] = "remote" /\ c.argv[3] = "add"
IsRemoteRemove(c) == Len(c.argv) >= 3 /\ c.argv[2] = "remote" /\ c.argv[3] = "remove"
IsClone(c) == Len(c.argv) >= 2 /\ c.argv[2] = "clone"
Count(P(_)) == Cardinality({i \in DOMAIN cmds : P(cmds[i])})

----------------------------------------------------------------------------
----------------------------------------------------------------------------
(* dagger.py: one run, held in the record dagger *)

GhcrImage == <<"ghcr.io", "org", "app">>
HubImage == <<"org", "app">>
GhcrUserValue == "octocat"
GhcrTokenValue == "ghp_s3cr3t"
Unset == ""
Scripts == {"test", "build"}
ShaTag == "abc1234"
TimestampTag == "ts20260101000000"

\* image_ref.startswith("ghcr.io/")
StartsWithGhcr(image) == image[1] = "ghcr.io"

\* nothing of dagger.py is running
DaggerIdle ==
    [image |-> HubImage, user |-> Unset, token |-> Unset, skip_tests |-> TRUE,
     no_push |-> TRUE, package_json |-> FALSE, scripts |-> {}, tag |-> Unset,
     pc |-> "idle", echo |-> <<>>, exit |-> <<>>]

DaggerStarts ==
    { [image |-> i, user |-> u, token |-> t, skip_tests |-> st, no_push |-> np,
       package_json |-> pj, scripts |-> sc, tag |-> Unset,
       pc |-> "sha", echo |-> <<>>, exit |-> <<>>] :
        i \in {GhcrImage, HubImage}, u \in {Unset, GhcrUserValue},
        t \in {Unset, GhcrTokenValue}, st \in BOOLEAN, np \in BOOLEAN,
        pj \in BOOLEAN, sc \in SUBSET Scripts }

\* run() of dagger.py, lines 42-53: print the command, execute it, raise
\* SystemExit on a nonzero exit when check is set
DgRunRaises(check, rc) == rc # 0 /\ check
DgRun(at, display, next) ==
    /\ dagger.pc = at
    /\ \E rc \in ExitCodes :
         dagger' = [dagger EXCEPT
                       !.echo = Append(@, display),
                       !.pc = IF DgRunRaises(TRUE, rc) THEN "exited" ELSE next,
                       !.exit = IF DgRunRaises(TRUE, rc) THEN <<1>> ELSE @]
    /\ UNCHANGED <<adapter, conc>>
DgSkip(at, next) ==
    /\ dagger.pc = at
    /\ dagger' = [dagger EXCEPT !.pc = next]
    /\ UNCHANGED <<adapter, conc>>

\* git_sha_short, lines 56-62: the SystemExit of run() is not an Exception
\* and passes the except clause; a missing git executable is one
DgSha ==
    /\ dagger.pc = "sha"
    /\ \E out \in {"sha", "failed", "no git"} :
         dagger' = [dagger EXCEPT
                       !.echo = Append(@, <<"git", "rev-parse", "--short", "HEAD">>),
                       !.tag = CASE out = "sha" -> ShaTag
                                 [] out = "failed" -> @
                                 [] out = "no git" -> TimestampTag,
                       !.pc = IF out = "failed" THEN "exited" ELSE "login",
                       !.exit = IF out = "failed" THEN <<1>> ELSE @]
    /\ UNCHANGED <<adapter, conc>>

\* docker_login_if_needed, lines 123-135
LoginCommand(user, token) ==
    <<"echo", token, "|", "docker", "login", "ghcr.io", "-u", user, "--password-stdin">>
AfterLogin == IF dagger.skip_tests THEN "docker_build" ELSE "npm_check"
DgLogin ==
    IF StartsWithGhcr(dagger.image) /\ dagger.user # Unset /\ dagger.token # Unset
    THEN DgRun("login", LoginCommand(dagger.user, dagger.token), AfterLogin)
    ELSE DgSkip("login", AfterLogin)

\* npm_install_and_test, lines 65-84
DgNpmCheck ==
    /\ dagger.pc = "npm_check"
    /\ dagger' = IF dagger.package_json
                 THEN [dagger EXCEPT !.pc = "npm_ci"]
                 ELSE [dagger EXCEPT !.pc = "exited", !.exit = <<1>>]
    /\ UNCHANGED <<adapter, conc>>
DgNpmCi == DgRun("npm_ci", <<"npm", "ci">>, "npm_test")
DgNpmTest ==
    IF "test" \in dagger.scripts
    THEN DgRun("npm_test", <<"npm", "test">>, "npm_build")
    ELSE DgSkip("npm_test", "npm_build")
DgNpmBuild ==
    IF "build" \in dagger.scripts
    THEN DgRun("npm_build", <<"npm", "run", "build">>, "docker_build")
    ELSE DgSkip("npm_build", "docker_build")

\* main, lines 153 and 166-175
ImageRef == dagger.image \o <<":", dagger.tag>>
DgDockerBuild ==
    DgRun("docker_build", <<"docker", "build", "-t">> \o ImageRef \o <<".">>,
          IF dagger.no_push THEN "done" ELSE "docker_push")
DgDockerPush == DgRun("docker_push", <<"docker", "push">> \o ImageRef, "done")
DgDone ==
    /\ dagger.pc = "done"
    /\ dagger' = [dagger EXCEPT !.pc = "exited", !.exit = <<0>>]
    /\ UNCHANGED <<adapter, conc>>

----------------------------------------------------------------------------
(* Two runs of deploy-adapter.py as separate processes on one host, in    *)
(* one repository, each with key material and its own remote URL; held in  *)
(* the record conc.  /tmp and the repository's remote configuration are    *)
(* shared; every step of a process is atomic with respect to the other.    *)

Procs == {1, 2}
Urls == <<"git@backend.im:org/one.git", "git@backend.im:org/two.git">>
Url(p) == Urls[p]
\* names tempfile can draw: mkstemp and mkdtemp create with O_EXCL / mkdir
\* and retry, so a name that exists is never returned
KeyNames == {"git_deploy_key_a", "git_deploy_key_b"}
DirNames == {"deploy_clone_a", "deploy_clone_b"}
Modes == {"direct", "artifact"}

ConcIdle ==
    [mode |-> [p \in Procs |-> "direct"], pc |-> [p \in Procs |-> "idle"],
     remote |-> <<>>, files |-> {}, key |-> [p \in Procs |-> None],
     tmp |-> [p \in Procs |-> None], pushedTo |-> [p \in Procs |-> <<>>]]

ConcStarts ==
    { [ConcIdle EXCEPT !.mode = m, !.pc = [p \in Procs |-> "main"]] :
        m \in [Procs -> Modes] }

\* main, lines 216-218: write_ssh_key_if_provided (mkstemp, line 94)
CcWriteKey(p) ==
    /\ conc.pc[p] = "main"
    /\ \E name \in KeyNames \ conc.files :
         conc' = [conc EXCEPT
                     !.key[p] = name,
                     !.files = @ \cup {name},
                     !.pc[p] = IF conc.mode[p] = "direct"
                               THEN "dh_remove_stale" ELSE "ad_mkdtemp"]
    /\ UNCHANGED <<adapter, dagger>>

\* line 114: git remote remove backend_im_deploy, check=False
CcRemoveStale(p) ==
    /\ conc.pc[p] = "dh_remove_stale"
    /\ conc' = [conc EXCEPT !.remote = <<>>, !.pc[p] = "dh_remote_add"]
    /\ UNCHANGED <<adapter, dagger>>

\* line 115: git remote add backend_im_deploy <url> fails when the name is
\* configured
CcRemoteAdd(p) ==
    /\ conc.pc[p] = "dh_remote_add"
    /\ conc' = IF conc.remote # <<>>
               THEN [conc EXCEPT !.pc[p] = "main_finally"]
               ELSE [conc EXCEPT !.remote = <<Url(p)>>, !.pc[p] = "dh_push"]
    /\ UNCHANGED <<adapter, dagger>>

\* line 121: git push backend_im_deploy HEAD:refs/heads/<branch> goes to the
\* URL configured under the name at that moment, and fails without one
CcPush(p) ==
    /\ conc.pc[p] = "dh_push"
    /\ IF conc.remote = <<>>
       THEN conc' = [conc EXCEPT !.pc[p] = "main_finally"]
       ELSE \E rc \in ExitCodes :
              conc' = [conc EXCEPT
                          !.pushedTo[p] = conc.remote,
                          !.pc[p] = IF RunRaises(TRUE, rc)
                                    THEN "main_finally" ELSE "dh_remove_remote"]
    /\ UNCHANGED <<adapter, dagger>>

\* line 124
CcRemoveRemote(p) ==
    /\ conc.pc[p] = "dh_remove_remote"
    /\ conc' = [conc EXCEPT !.remote = <<>>, !.pc[p] = "main_finally"]
    /\ UNCHANGED <<adapter, dagger>>

\* line 133: mkdtemp
CcMkdtemp(p) ==
    /\ conc.pc[p] = "ad_mkdtemp"
    /\ \E name \in DirNames \ conc.files :
         conc' = [conc EXCEPT
                     !.tmp[p] = name, !.files = @ \cup {name}, !.pc[p] = "ad_clone"]
    /\ UNCHANGED <<adapter, dagger>>

\* lines 136-160: clone into tmp and prepare the commit; all of it needs
\* the directory
CcClone(p) ==
    /\ conc.pc[p] = "ad_clone"
    /\ \E rc \in ExitCodes :
         conc' = [conc EXCEPT
                     !.pc[p] = IF conc.tmp[p] \notin conc.files \/ RunRaises(TRUE, rc)
                               THEN "ad_finally" ELSE "ad_push"]
    /\ UNCHANGED <<adapter, dagger>>

\* lines 161-164: git push origin, the origin of the process's own clone
CcPushOrigin(p) ==
    /\ conc.pc[p] = "ad_push"
    /\ conc' = IF conc.tmp[p] \notin conc.files
               THEN [conc EXCEPT !.pc[p] = "ad_finally"]
               ELSE [conc EXCEPT !.pushedTo[p] = <<Url(p)>>, !.pc[p] = "ad_finally"]
    /\ UNCHANGED <<adapter, dagger>>

\* lines 165-167
CcRmtree(p) ==
    /\ conc.pc[p] = "ad_finally"
    /\ conc' = [conc EXCEPT !.files = @ \ {conc.tmp[p]}, !.pc[p] = "main_finally"]
    /\ UNCHANGED <<adapter, dagger>>

\* lines 239-245
CcRemoveKey(p) ==
    /\ conc.pc[p] = "main_finally"
    /\ conc' = [conc EXCEPT !.files = @ \ {conc.key[p]}, !.pc[p] = "exited"]
    /\ UNCHANGED <<adapter, dagger>>

\* the process has just started: nothing written, nothing run
Fresh ==
    /\ keyfile = NoFile
    /\ tree = {}
    /\ fs = {}
    /\ pc = "main"
    /\ raised = NoExc
    /\ exitCode = <<>>
    /\ ssh_key_path = None
    /\ tmp = None
    /\ cmds = <<>>
    /\ now = 0
    /\ deadline = 0
    /\ last = <<>>
    /\ gets = <<>>
    /\ sleeps = 0
    /\ outcome = "NotStarted"
    /\ result = <<>>

\* Inputs the chosen mode never reads are held at one value: the worktree,
\* --allow-dirty and the configured remotes are read in DirectHead mode
\* only, the artifact directory and the remote's tree in ArtifactDir mode
\* only.  The trees are varied in the runs without a status URL; the runs
\* that go on to poll use one pair of trees.
Init ==
    /\ args \in [artifact_dir : BOOLEAN, allow_dirty : BOOLEAN, force : BOOLEAN,
                 status_url : BOOLEAN, skip_poll : BOOLEAN,
                 status_timeout : Timeouts]
    /\ key_material \in {<<>>, k_b64}
    /\ git_ssh_key = (key_material # <<>>)
    /\ worktreeDirty \in BOOLEAN
    /\ artifactPresent \in BOOLEAN
    /\ remotes \in {{}, {remote_name}}
    /\ args.artifact_dir => (~worktreeDirty /\ ~args.allow_dirty /\ remotes = {})
    /\ ~args.artifact_dir => artifactPresent
    /\ artifactEntries \in ArtifactTrees \cup {{}}
    /\ priorEntries \in PriorTrees \cup {{}}
    /\ artifactEntries # {} <=> (args.artifact_dir /\ artifactPresent)
    /\ priorEntries # {} <=> args.artifact_dir
    /\ args.status_url => /\ priorEntries \in {{}, PolledPrior}
                          /\ artifactEntries \in {{}, PolledArtifact}
    /\ Fresh
    /\ dagger = DaggerIdle
    /\ conc = ConcIdle

\* raise inside main's try block, outside git_push_artifact_dir's
RaiseInMain(exc) == raised' = exc /\ pc' = "main_finally"
\* raise inside git_push_artifact_dir's try block
RaiseInArtifact(exc) == raised' = exc /\ pc' = "ad_finally"

(* main, lines 212-218: read the key material, write the key file *)
MainWriteKeySkipped ==
    /\ pc = "main"
    /\ pc' = "mode"
    /\ UNCHANGED <<inputs, keyfile, tree, remotes, fs, raised, exitCode, ssh_key_path, tmp, cmds, pollv>>

MainWriteKey ==
    /\ pc = "main"
    /\ IF git_ssh_key
       THEN /\ ssh_key_path' = KeyPath
            /\ fs' = fs \cup {KeyPath}
            /\ keyfile' = [content |-> KeyBytes(key_material), mode |-> OwnerOnly]
       ELSE UNCHANGED <<ssh_key_path, fs, keyfile>>
    /\ pc' = "mode"
    /\ UNCHANGED <<inputs, tree, remotes, raised, exitCode, tmp, cmds, pollv>>

----------------------------------------------------------------------------
(* DirectHead: ensure_clean_worktree, git_push_current_head *)

DirtyRefusal == <<"Refusing to push with a dirty working tree">>

RefusesNever(dirty, allow_dirty) == FALSE
Refuses(dirty, allow_dirty) == dirty /\ ~allow_dirty

EnsureCleanWorktree ==
    /\ pc = "mode"
    /\ ~args.artifact_dir
    /\ \E rc \in ExitCodes :
         /\ cmds' = Echoed(<<"git", "status", "--porcelain">>, InheritedEnv, rc)
         /\ IF RunRaises(TRUE, rc)
            THEN RaiseInMain(CommandFailed)
            ELSE IF Refuses(worktreeDirty, args.allow_dirty)
                 THEN RaiseInMain(DirtyRefusal)
                 ELSE pc' = "dh_remove_stale" /\ UNCHANGED raised
    /\ UNCHANGED <<inputs, keyfile, tree, remotes, fs, exitCode, ssh_key_path, tmp, pollv>>

\* run(["git", "remote", "remove", remote_name], check=False): git exits 0
\* and drops the remote iff it was configured and the configuration could
\* be rewritten; a nonzero exit is ignored
RemoteRemove ==
    \E rc \in ExitCodes :
      /\ rc = 0 => remote_name \in remotes
      /\ cmds' = Echoed(<<"git", "remote", "remove", remote_name>>, InheritedEnv, rc)
      /\ remotes' = IF rc = 0 THEN remotes \ {remote_name} ELSE remotes
      /\ ~RunRaises(FALSE, rc)

DhRemoveStale ==
    /\ pc = "dh_remove_stale"
    /\ RemoteRemove
    /\ pc' = "dh_remote_add"
    /\ UNCHANGED <<inputs, keyfile, tree, fs, raised, exitCode, ssh_key_path, tmp, pollv>>

DhRemoteAdd ==
    /\ pc = "dh_remote_add"
    /\ \E rc \in ExitCodes :
         /\ rc = 0 => remote_name \notin remotes
         /\ cmds' = Echoed(<<"git", "remote", "add", remote_name, RemoteUrl>>,
                           GitSshCommand(ssh_key_path), rc)
         /\ IF RunRaises(TRUE, rc)
            THEN RaiseInMain(CommandFailed) /\ UNCHANGED remotes
            ELSE /\ remotes' = remotes \cup {remote_name}
                 /\ pc' = "dh_push"
                 /\ UNCHANGED raised
    /\ UNCHANGED <<inputs, keyfile, tree, fs, exitCode, ssh_key_path, tmp, pollv>>

DhPush ==
    /\ pc = "dh_push"
    /\ \E rc \in ExitCodes :
         /\ cmds' = Echoed(PushCmd(remote_name, args.force), GitSshCommand(ssh_key_path), rc)
         /\ IF RunRaises(TRUE, rc)
            THEN RaiseInMain(CommandFailed)
            ELSE pc' = "dh_remove_remote" /\ UNCHANGED raised
    /\ UNCHANGED <<inputs, keyfile, tree, remotes, fs, exitCode, ssh_key_path, tmp, pollv>>

DhRemoveRemote ==
    /\ pc = "dh_remove_remote"
    /\ RemoteRemove
    /\ pc' = "push_complete"
    /\ UNCHANGED <<inputs, keyfile, tree, fs, raised, exitCode, ssh_key_path, tmp, pollv>>

----------------------------------------------------------------------------
(* ArtifactDir: git_push_artifact_dir *)

AdMkdtemp ==
    /\ pc = "mode"
    /\ args.artifact_dir
    /\ tmp' = ClonePath
    /\ fs' = fs \cup {ClonePath}
    /\ pc' = "ad_clone"
    /\ UNCHANGED <<inputs, keyfile, tree, remotes, raised, exitCode, ssh_key_path, cmds, pollv>>

\* a run(..., env=env) call inside the try block that goes on to `next`
AdRun(at, argv, check, next) ==
    /\ pc = at
    /\ \E rc \in ExitCodes :
         /\ cmds' = Echoed(argv, GitSshCommand(ssh_key_path), rc)
         /\ IF RunRaises(check, rc)
            THEN RaiseInArtifact(CommandFailed)
            ELSE pc' = next /\ UNCHANGED raised
    /\ UNCHANGED <<inputs, keyfile, tree, remotes, fs, exitCode, ssh_key_path, tmp, pollv>>

\* git clone fills the working tree with the remote's entries and .git
AdClone ==
    /\ pc = "ad_clone"
    /\ \E rc \in ExitCodes :
         /\ cmds' = Echoed(<<"git", "clone", RemoteUrl, ClonePath>>,
                           GitSshCommand(ssh_key_path), rc)
         /\ IF RunRaises(TRUE, rc)
            THEN RaiseInArtifact(CommandFailed) /\ UNCHANGED tree
            ELSE /\ tree' = {GitDir} \cup priorEntries
                 /\ pc' = "ad_checkout"
                 /\ UNCHANGED raised
    /\ UNCHANGED <<inputs, keyfile, remotes, fs, exitCode, ssh_key_path, tmp, pollv>>

AdCheckout == AdRun("ad_checkout", <<"git", "checkout", "-B", Branch>>, TRUE, "ad_copy")

CopyError == <<"shutil.Error">>

\* lines 140-146: delete every entry of the clone except .git
CleanTreeKeepsAll(t) == t
CleanTree(t) == t \cap {GitDir}

\* lines 139-157: empty the clone, then copy the artifact directory in,
\* entry by entry.  The copy may fail part-way (done is what was copied).
\* A .git directory in the artifact directory cannot be copied over the
\* clone's own (copytree raises FileExistsError); a .git file is copied
\* into the clone's .git directory, which stays the top-level entry.
AdCopy ==
    /\ pc = "ad_copy"
    /\ IF ~artifactPresent
       THEN /\ tree' = CleanTree(tree)
            /\ RaiseInArtifact(<<"artifact_dir does not exist">>)
       ELSE \E done \in SUBSET artifactEntries :
              /\ tree' = CleanTree(tree) \cup done
              /\ IF done = artifactEntries
                 THEN pc' = "ad_add" /\ UNCHANGED raised
                 ELSE RaiseInArtifact(CopyError)
    /\ UNCHANGED <<inputs, keyfile, remotes, fs, exitCode, ssh_key_path, tmp, cmds, pollv>>

AdAdd == AdRun("ad_add", <<"git", "add", "-A">>, TRUE, "ad_commit")

\* git commit exits 1 when the staged tree is the tree of HEAD (nothing to
\* commit; an entry's name stands for its content); otherwise it exits 0, or 128 when it cannot commit (no author
\* identity, a failing hook)
CommitExitCodes == {0, 1, 128}
NothingToCommit == tree = {GitDir} \cup priorEntries
CommitCheck == FALSE

AdCommit ==
    /\ pc = "ad_commit"
    /\ \E rc \in CommitExitCodes :
         /\ (rc = 1) <=> NothingToCommit
         /\ cmds' = Echoed(<<"git", "commit", "-m", "deploy">>,
                           GitSshCommand(ssh_key_path), rc)
         /\ IF RunRaises(CommitCheck, rc)
            THEN RaiseInArtifact(CommandFailed)
            ELSE pc' = "ad_push" /\ UNCHANGED raised
    /\ UNCHANGED <<inputs, keyfile, tree, remotes, fs, exitCode, ssh_key_path, tmp, pollv>>

AdPush == AdRun("ad_push", PushCmd("origin", args.force), TRUE, "ad_finally")

\* the finally block: rmtree(tmp), then the exception, if any, goes on to main
AdFinallyOnSuccessOnly ==
    /\ pc = "ad_finally"
    /\ fs' = IF raised = NoExc THEN fs \ {tmp} ELSE fs
    /\ tree' = IF raised = NoExc THEN {} ELSE tree
    /\ pc' = IF raised = NoExc THEN "push_complete" ELSE "main_finally"
    /\ UNCHANGED <<inputs, keyfile, remotes, raised, exitCode, ssh_key_path, tmp, cmds, pollv>>

AdFinally ==
    /\ pc = "ad_finally"
    /\ fs' = fs \ {tmp}
    /\ tree' = {}
    /\ pc' = IF raised = NoExc THEN "push_complete" ELSE "main_finally"
    /\ UNCHANGED <<inputs, keyfile, remotes, raised, exitCode, ssh_key_path, tmp, cmds, pollv>>

----------------------------------------------------------------------------
(* main, lines 229-237, and the entry of poll_status_url, lines 171-176 *)

\* lines 231-237 without the skip_poll test
PushCompleteIgnoresSkip ==
    /\ pc = "push_complete"
    /\ IF args.status_url
       THEN /\ deadline' = now + args.status_timeout
            /\ last' = <<>>
            /\ outcome' = "Polling"
            /\ pc' = "poll_loop"
       ELSE /\ pc' = "main_finally"
            /\ UNCHANGED <<deadline, last, outcome>>
    /\ UNCHANGED <<inputs, keyfile, tree, remotes, fs, raised, exitCode, ssh_key_path, tmp, cmds,
                   now, gets, sleeps, result>>

PushComplete ==
    /\ pc = "push_complete"
    /\ IF args.status_url /\ ~args.skip_poll
       THEN /\ deadline' = now + args.status_timeout
            /\ last' = <<>>
            /\ outcome' = "Polling"
            /\ pc' = "poll_loop"
       ELSE /\ pc' = "main_finally"
            /\ UNCHANGED <<deadline, last, outcome>>
    /\ UNCHANGED <<inputs, keyfile, tree, remotes, fs, raised, exitCode, ssh_key_path, tmp, cmds,
                   now, gets, sleeps, result>>

----------------------------------------------------------------------------
(* poll_status_url *)

\* j.get("status") or j.get("state") or j.get("deploy_status") or None
Truthy(v) == v # NoneStr /\ v # EmptyStr
OrIfPresent(a, b) == IF a # NoneStr THEN a ELSE b
Or(a, b) == IF Truthy(a) THEN a ELSE b
Status(j) == Or(Or(Or(j.status, j.state), j.deploy_status), NoneStr)

IsSuccessOnlyDone(status) == Truthy(status) /\ Lower(status) \in {s_done}
IsSuccess(status) == Truthy(status) /\ Lower(status) \in {s_done, s_success, s_ready}

IsFailureCaseSensitive(status) == Truthy(status) /\ status \in {s_failed, s_error}
IsFailure(status) == Truthy(status) /\ Lower(status) \in {s_failed, s_error}

\* the while condition
BeforeDeadlineInclusive(t, d) == t <= d
BeforeDeadline(t, d) == t < d

DeploymentFailed(j) == <<"Deployment failed", j>>

\* one pass of the loop body in which the GET returns a JSON body
PollGetResponse ==
    /\ pc = "poll_loop"
    /\ BeforeDeadline(now, deadline)
    /\ \E j \in Payloads, d \in ReqDurations :
         /\ now' = now + d
         /\ gets' = Append(gets, Got(j, Status(j)))
         /\ IF IsSuccess(Status(j))
            THEN /\ result' = <<j>>
                 /\ outcome' = "Succeeded"
                 /\ pc' = "main_finally"
                 /\ UNCHANGED <<raised, last>>
            ELSE IF IsFailure(Status(j))
            THEN /\ outcome' = "Failed"
                 /\ RaiseInMain(DeploymentFailed(j))
                 /\ UNCHANGED <<result, last>>
            ELSE /\ last' = <<j>>
                 /\ pc' = "poll_sleep"
                 /\ UNCHANGED <<raised, result, outcome>>
    /\ UNCHANGED <<inputs, keyfile, tree, remotes, fs, exitCode, ssh_key_path, tmp, cmds,
                   deadline, sleeps>>

\* one pass of the loop body in which the GET raises RequestException
PollGetErrorForgets ==
    /\ pc = "poll_loop"
    /\ BeforeDeadline(now, deadline)
    /\ \E d \in ReqDurations : now' = now + d
    /\ gets' = Append(gets, GotError)
    /\ last' = <<>>
    /\ pc' = "poll_sleep"
    /\ UNCHANGED <<inputs, keyfile, tree, remotes, fs, raised, exitCode, ssh_key_path, tmp, cmds,
                   deadline, sleeps, outcome, result>>

PollGetError ==
    /\ pc = "poll_loop"
    /\ BeforeDeadline(now, deadline)
    /\ \E d \in ReqDurations : now' = now + d
    /\ gets' = Append(gets, GotError)
    /\ pc' = "poll_sleep"
    /\ UNCHANGED <<inputs, keyfile, tree, remotes, fs, raised, exitCode, ssh_key_path, tmp, cmds,
                   deadline, last, sleeps, outcome, result>>

PollSleep ==
    /\ pc = "poll_sleep"
    /\ now' = now + Interval
    /\ sleeps' = sleeps + 1
    /\ pc' = "poll_loop"
    /\ UNCHANGED <<inputs, keyfile, tree, remotes, fs, raised, exitCode, ssh_key_path, tmp, cmds,
                   deadline, last, gets, outcome, result>>

\* the loop condition fails: lines 193-194
PollTimedOutRaises ==
    /\ pc = "poll_loop"
    /\ ~BeforeDeadline(now, deadline)
    /\ outcome' = "TimedOut"
    /\ result' = last
    /\ RaiseInMain(<<"Status poll timed out">>)
    /\ UNCHANGED <<inputs, keyfile, tree, remotes, fs, exitCode, ssh_key_path, tmp, cmds,
                   now, deadline, last, gets, sleeps>>

PollTimedOut ==
    /\ pc = "poll_loop"
    /\ ~BeforeDeadline(now, deadline)
    /\ outcome' = "TimedOut"
    /\ result' = last
    /\ pc' = "main_finally"
    /\ UNCHANGED <<inputs, keyfile, tree, remotes, fs, raised, exitCode, ssh_key_path, tmp, cmds,
                   now, deadline, last, gets, sleeps>>

----------------------------------------------------------------------------
(* main's finally block, lines 239-245, and process exit *)

MainFinallyOnSuccessOnly ==
    /\ pc = "main_finally"
    /\ fs' = IF ssh_key_path # None /\ raised = NoExc THEN fs \ {ssh_key_path} ELSE fs
    /\ exitCode' = IF raised = NoExc THEN <<0>> ELSE <<1>>
    /\ pc' = "exited"
    /\ UNCHANGED <<inputs, keyfile, tree, remotes, raised, ssh_key_path, tmp, cmds, pollv>>

MainFinally ==
    /\ pc = "main_finally"
    /\ fs' = IF ssh_key_path # None /\ ssh_key_path \in fs THEN fs \ {ssh_key_path} ELSE fs
    /\ exitCode' = IF raised = NoExc THEN <<0>> ELSE <<1>>
    /\ pc' = "exited"
    /\ UNCHANGED <<inputs, keyfile, tree, remotes, raised, ssh_key_path, tmp, cmds, pollv>>

Next ==
    \/ MainWriteKey
    \/ EnsureCleanWorktree
    \/ DhRemoveStale
    \/ DhRemoteAdd
    \/ DhPush
    \/ DhRemoveRemote
    \/ AdMkdtemp
    \/ AdClone
    \/ AdCheckout
    \/ AdCopy
    \/ AdAdd
    \/ AdCommit
    \/ AdPush
    \/ AdFinally
    \/ PushComplete
    \/ PollGetResponse
    \/ PollGetError
    \/ PollSleep
    \/ PollTimedOut
    \/ MainFinally

Spec == Init /\ [][Next]_vars

\* write_ssh_key_if_provided on its own, over every key material tried: a
\* DirectHead run on a clean tree, followed up to the end of line 218
KeyInit ==
    /\ args = [artifact_dir |-> FALSE, allow_dirty |-> FALSE, force |-> FALSE,
               status_url |-> FALSE, skip_poll |-> FALSE, status_timeout |-> 0]
    /\ key_material \in KeyInputs
    /\ git_ssh_key = TRUE
    /\ worktreeDirty = FALSE
    /\ artifactPresent = TRUE
    /\ remotes = {}
    /\ artifactEntries = {}
    /\ priorEntries = {}
    /\ Fresh
    /\ dagger = DaggerIdle
    /\ conc = ConcIdle

KeyNext == MainWriteKey

KeySpec == KeyInit /\ [][KeyNext]_vars

\* the deploy adapter at rest: a DirectHead run that is never stepped
AdapterIdle ==
    /\ args = [artifact_dir |-> FALSE, allow_dirty |-> FALSE, force |-> FALSE,
               status_url |-> FALSE, skip_poll |-> FALSE, status_timeout |-> 0]
    /\ key_material = <<>>
    /\ git_ssh_key = FALSE
    /\ worktreeDirty = FALSE
    /\ artifactPresent = TRUE
    /\ remotes = {}
    /\ artifactEntries = {}
    /\ priorEntries = {}
    /\ Fresh

\* dagger.py on its own
DaggerInit ==
    /\ AdapterIdle
    /\ dagger \in DaggerStarts
    /\ conc = ConcIdle

DaggerNext ==
    \/ DgSha
    \/ DgLogin
    \/ DgNpmCheck
    \/ DgNpmCi
    \/ DgNpmTest
    \/ DgNpmBuild
    \/ DgDockerBuild
    \/ DgDockerPush
    \/ DgDone

DaggerSpec == DaggerInit /\ [][DaggerNext]_vars

\* the two concurrent runs on their own, under every interleaving
ConcInit ==
    /\ AdapterIdle
    /\ dagger = DaggerIdle
    /\ conc \in ConcStarts

ConcNext ==
    \E p \in Procs :
        \/ CcWriteKey(p)
        \/ CcRemoveStale(p)
        \/ CcRemoteAdd(p)
        \/ CcPush(p)
        \/ CcRemoveRemote(p)
        \/ CcMkdtemp(p)
        \/ CcClone(p)
        \/ CcPushOrigin(p)
        \/ CcRmtree(p)
        \/ CcRemoveKey(p)

ConcSpec == ConcInit /\ [][ConcNext]_vars

\* the single thread of control keeps running until the process exits
FairSpec == Spec /\ WF_vars(Next)

----------------------------------------------------------------------------
(* Vocabulary of the properties *)

Exited == pc = "exited"
DirectHead == ~args.artifact_dir
PushIssued == \E i \in DOMAIN cmds : IsPush(cmds[i])
PushSucceeded == \E i \in DOMAIN cmds : IsPush(cmds[i]) /\ cmds[i].rc = 0
PushFailed == \E i \in DOMAIN cmds : IsPush(cmds[i]) /\ cmds[i].rc # 0
NoNetworkOperation ==
    /\ \A i \in DOMAIN cmds : ~IsRemoteAdd(cmds[i]) /\ ~IsPush(cmds[i]) /\ ~IsClone(cmds[i])
    /\ gets = <<>>

\* the status sets as the specification words them, compared without case
SuccessWords == {s_done, s_success, s_ready}
FailureWords == {s_failed, s_error}
Resolved(g) == Status(g[2])
SaysSuccess(g) ==
    IsResponse(g) /\ Resolved(g) \notin {NoneStr, EmptyStr} /\ Lower(Resolved(g)) \in SuccessWords
SaysFailure(g) ==
    IsResponse(g) /\ Resolved(g) \notin {NoneStr, EmptyStr} /\ Lower(Resolved(g)) \in FailureWords
NonTerminal(g) == IsResponse(g) /\ ~SaysSuccess(g) /\ ~SaysFailure(g)
NumberOf(P(_)) == Cardinality({i \in DOMAIN gets : P(gets[i])})
IsError(g) == ~IsResponse(g)

\* the payload of the last non-terminal response received, <<>> if none
RECURSIVE LastSeen(_)
LastSeen(log) ==
    IF log = <<>> THEN <<>>
    ELSE IF NonTerminal(log[Len(log)]) THEN <<log[Len(log)][2]>>
    ELSE LastSeen(SubSeq(log, 1, Len(log) - 1))

----------------------------------------------------------------------------
(* C1: when key material is supplied, the temporary key file no longer     *)
(* exists once the run has terminated, at whatever stage it ended.         *)
C1_KeyFileRemovedAtExit ==
    (Exited /\ git_ssh_key) => (ssh_key_path = KeyPath /\ KeyPath \notin fs)

C1_Witness ==
    /\ Exited
    /\ git_ssh_key = TRUE
    /\ raised # NoExc
    /\ PushFailed
    /\ KeyPath \notin fs

(* C2: in DirectHead mode, once the temporary remote has been registered   *)
(* and the push attempted, a removal of the remote has been issued after   *)
(* the push by the time the run terminates, also when the push failed.     *)
C2_RemovalAttemptedAfterPush ==
    (Exited /\ DirectHead /\ PushIssued) =>
        \E i, k \in DOMAIN cmds : IsPush(cmds[i]) /\ k > i /\ IsRemoteRemove(cmds[k])

(* C3: a DirectHead run on a dirty tree without allow-dirty issues no      *)
(* network operation at any point and ends with a fatal error; with        *)
(* allow-dirty the dirty tree is never refused and the run goes on into    *)
(* the push sequence right after git status.                               *)
C3_DirtyRefusedBeforeNetwork ==
    /\ (DirectHead /\ worktreeDirty /\ ~args.allow_dirty) =>
          /\ NoNetworkOperation
          /\ pc \in {"main", "mode", "main_finally", "exited"}
          /\ Exited => (exitCode = <<1>> /\ raised # NoExc)
    /\ (DirectHead /\ worktreeDirty /\ args.allow_dirty) =>
          /\ raised # DirtyRefusal
          /\ (Len(cmds) = 1 /\ cmds[1].rc = 0) => (pc = "dh_remove_stale" /\ raised = NoExc)

C3_Witness ==
    /\ Exited
    /\ DirectHead /\ worktreeDirty /\ ~args.allow_dirty
    /\ raised = DirtyRefusal
    /\ exitCode = <<1>>

\* control is inside git_push_artifact_dir, after mkdtemp
InArtifactDir ==
    pc \in {"ad_clone", "ad_checkout", "ad_copy", "ad_add", "ad_commit", "ad_push", "ad_finally"}

(* C4: in ArtifactDir mode the ephemeral clone directory no longer exists  *)
(* once git_push_artifact_dir has been left, on every exit path.           *)
C4_CloneDirRemoved ==
    (tmp # None /\ ~InArtifactDir) => tmp \notin fs

C4_Witness ==
    /\ tmp = ClonePath
    /\ ~InArtifactDir
    /\ raised = CopyError
    /\ tmp \notin fs

(* C5: a response whose resolved status is in the failure set is the last  *)
(* GET of the run: no GET and no sleep follows it, the fatal error carries *)
(* its payload, and the process exits with a non-zero status.              *)
C5_FailureStopsImmediately ==
    \A i \in DOMAIN gets :
        SaysFailure(gets[i]) =>
            /\ i = Len(gets)
            /\ sleeps = i - 1
            /\ outcome = "Failed"
            /\ raised = DeploymentFailed(gets[i][2])
            /\ pc \in {"main_finally", "exited"}
            /\ Exited => exitCode = <<1>>

C5_Witness ==
    /\ Exited
    /\ Len(gets) = 2
    /\ SaysFailure(gets[2])
    /\ gets[2][2].status = s_Failed
    /\ exitCode = <<1>>

(* C6: k non-terminal responses followed by a success response make the    *)
(* poller return that success payload after exactly k+1 GETs (plus one per *)
(* transport error), and no further GET or sleep is issued.                *)
C6_SuccessAfterKPlusOne ==
    \A i \in DOMAIN gets :
        SaysSuccess(gets[i]) =>
            /\ i = Len(gets)
            /\ \A k \in 1..(i - 1) : NonTerminal(gets[k]) \/ IsError(gets[k])
            /\ Len(gets) = NumberOf(NonTerminal) + NumberOf(IsError) + 1
            /\ sleeps = i - 1
            /\ outcome = "Succeeded"
            /\ result = <<gets[i][2]>>
            /\ raised = NoExc
            /\ pc \in {"main_finally", "exited"}

C6_Witness ==
    /\ Exited
    /\ Len(gets) = 3
    /\ NonTerminal(gets[1]) /\ NonTerminal(gets[2])
    /\ SaysSuccess(gets[3])
    /\ result = <<gets[3][2]>>

\* what C7 says of each state
C7_TimedOutState ==
    /\ Len(gets) >= 1 => (Len(gets) - 1) * Interval < args.status_timeout
    /\ args.status_timeout = 6 => Len(gets) <= 2
    /\ outcome = "TimedOut" =>
          /\ now >= deadline
          /\ \A i \in DOMAIN gets : NonTerminal(gets[i]) \/ IsError(gets[i])
          /\ result = LastSeen(gets)
          /\ raised = NoExc
          /\ Exited => exitCode = <<0>>
    /\ (outcome = "Polling" /\ now >= deadline /\ pc = "poll_loop") =>
          (ENABLED PollTimedOut /\ ~ENABLED PollGetResponse /\ ~ENABLED PollGetError)

(* C7: when no response is terminal the poller ends once the deadline has  *)
(* passed, after a bounded number of GETs (at most 2 for timeout 6 and     *)
(* interval 3), returning the last non-terminal payload (or none) without  *)
(* a fatal error, so that the run exits with status 0.                     *)
C7_TimeoutIsNotFatal ==
    /\ []C7_TimedOutState
    /\ [](outcome = "Polling" => <>(outcome # "Polling"))
    /\ []((outcome = "Polling" /\ \A i \in DOMAIN gets : ~SaysSuccess(gets[i]) /\ ~SaysFailure(gets[i]))
            => <>(outcome \in {"TimedOut", "Succeeded", "Failed"} /\ Exited))

C7_Witness ==
    /\ Exited
    /\ outcome = "TimedOut"
    /\ args.status_timeout = 6
    /\ Len(gets) = 2
    /\ IsError(gets[2])
    /\ result = <<gets[1][2]>>
    /\ exitCode = <<0>>

\* the step in which a GET raises RequestException
TransportErrorStep == gets' = Append(gets, GotError)

\* what C8 says of each state
C8_StateAfterErrors ==
    /\ \A i \in DOMAIN gets :
          IsError(gets[i]) =>
              /\ raised = NoExc \/ i < Len(gets)
              /\ sleeps >= i \/ (i = Len(gets) /\ pc = "poll_sleep")
    /\ (pc = "poll_loop" /\ now < deadline) => (ENABLED PollGetResponse /\ ~ENABLED PollTimedOut)
    /\ \A i \in DOMAIN gets : SaysSuccess(gets[i]) => outcome = "Succeeded"

(* C8: a transport error leaves the poller polling: it raises nothing,     *)
(* leaves the last-seen payload as it was, is followed by the interval     *)
(* sleep and, if the deadline has not passed, by another GET; a success    *)
(* response after transport errors still yields Succeeded.                 *)
C8_TransportErrorKeepsPolling ==
    /\ [][TransportErrorStep =>
            /\ last' = last
            /\ raised' = NoExc
            /\ outcome' = "Polling"
            /\ result' = result
            /\ pc' = "poll_sleep"]_vars
    /\ [][pc = "poll_sleep" =>
            /\ pc' = "poll_loop"
            /\ sleeps' = sleeps + 1
            /\ now' = now + Interval
            /\ last' = last]_vars
    /\ []C8_StateAfterErrors

C8_Witness ==
    /\ outcome = "Succeeded"
    /\ Len(gets) = 3
    /\ NonTerminal(gets[1])
    /\ IsError(gets[2])
    /\ SaysSuccess(gets[3])
    /\ Exited /\ exitCode = <<0>>

(* C9, as stated: the run's result is success if and only if the push      *)
(* succeeded, whatever the status poll came to.                            *)
C9_SuccessIffPushSucceeded ==
    Exited => (exitCode = <<0>> <=> PushSucceeded)

(* C9, amended: the run's result is success if and only if the push        *)
(* succeeded and the poller did not see an explicit failure status; a      *)
(* TimedOut poll leaves the result of a successful push a success.         *)
C9_SuccessIffPushedAndNotFailed ==
    /\ Exited => (exitCode = <<0>> <=> (PushSucceeded /\ outcome # "Failed"))
    /\ (Exited /\ outcome = "TimedOut") => (PushSucceeded /\ exitCode = <<0>>)
    /\ (Exited /\ outcome = "Failed") => (PushSucceeded /\ exitCode = <<1>>)

C9_Witness ==
    /\ Exited
    /\ PushSucceeded
    /\ outcome = "TimedOut"
    /\ gets # <<>>
    /\ exitCode = <<0>>

(* C10: git push is invoked at most once per run, in both modes; a nonzero *)
(* exit of it is fatal, and neither another command nor the status poller  *)
(* is started afterwards.                                                  *)
C10_SinglePushAttempt ==
    /\ Count(IsPush) <= 1
    /\ PushFailed =>
          /\ IsPush(cmds[Len(cmds)])
          /\ raised = CommandFailed
          /\ gets = <<>> /\ sleeps = 0 /\ outcome = "NotStarted"
          /\ pc \in {"ad_finally", "main_finally", "exited"}
          /\ Exited => exitCode = <<1>>

C10_Witness ==
    /\ Exited
    /\ PushFailed
    /\ args.artifact_dir
    /\ args.status_url /\ ~args.skip_poll
    /\ exitCode = <<1>>

----------------------------------------------------------------------------
(* Vocabulary of the later properties *)

IsGitStatus(c) == Len(c.argv) >= 2 /\ c.argv[2] = "status"
IsCommit(c) == Len(c.argv) >= 2 /\ c.argv[2] = "commit"
KeyTransport == <<"ssh", "-i", KeyPath, "-o", "StrictHostKeyChecking=no">>
Positions(argv, word) == {k \in DOMAIN argv : argv[k] = word}

(* C11, as stated: once the key file exists, every git command of the run  *)
(* is executed with the GIT_SSH_COMMAND that references the key file.      *)
C11_EveryGitCommandUsesKey ==
    ssh_key_path = KeyPath => \A i \in DOMAIN cmds : cmds[i].gsc = KeyTransport

(* C11, amended: once the key file exists, git remote add, clone,          *)
(* checkout, add, commit and push are executed with the GIT_SSH_COMMAND    *)
(* that references it, while git status and git remote remove are executed *)
(* with the inherited environment.                                         *)
C11_TransportCommandsUseKey ==
    ssh_key_path = KeyPath =>
        \A i \in DOMAIN cmds :
            IF IsGitStatus(cmds[i]) \/ IsRemoteRemove(cmds[i])
            THEN cmds[i].gsc = <<>>
            ELSE cmds[i].gsc = KeyTransport

C11_Witness ==
    /\ Exited
    /\ ssh_key_path = KeyPath
    /\ DirectHead
    /\ PushSucceeded
    /\ \E i \in DOMAIN cmds : IsPush(cmds[i]) /\ cmds[i].gsc = KeyTransport
    /\ cmds[Len(cmds)].gsc = <<>>

(* C13: with force requested the push command holds the force flag once,   *)
(* before the remote name and the refspec, in both modes; without force    *)
(* it holds no force flag.                                                 *)
C13_ForceFlagBeforeDestination ==
    \A i \in DOMAIN cmds :
        IsPush(cmds[i]) =>
            LET argv == cmds[i].argv
                dest == IF args.artifact_dir THEN "origin" ELSE remote_name
            IN  /\ Cardinality(Positions(argv, dest)) = 1
                /\ Cardinality(Positions(argv, push_ref)) = 1
                /\ IF args.force
                   THEN /\ Cardinality(Positions(argv, "--force")) = 1
                        /\ \A f \in Positions(argv, "--force"),
                              d \in Positions(argv, dest) \cup Positions(argv, push_ref) : f < d
                   ELSE Positions(argv, "--force") = {}

C13_Witness ==
    /\ args.force
    /\ args.artifact_dir
    /\ PushIssued
    /\ cmds[Len(cmds)].argv = <<"git", "push", "--force", "origin", push_ref>>

(* C19: a status GET is issued only in a run with a status URL and without *)
(* skip-poll, and only after the push succeeded; in every other run the    *)
(* poller is never entered.                                                *)
C19_PollOnlyAfterSuccessfulPush ==
    /\ (gets # <<>> \/ outcome # "NotStarted" \/ sleeps > 0) =>
          /\ args.status_url /\ ~args.skip_poll
          /\ PushSucceeded
          /\ IsPush(cmds[Len(cmds)]) \/ IsRemoteRemove(cmds[Len(cmds)])
    /\ (Exited /\ (~args.status_url \/ args.skip_poll \/ ~PushSucceeded)) =>
          (gets = <<>> /\ outcome = "NotStarted")

C19_Witness ==
    /\ Exited
    /\ args.status_url /\ ~args.skip_poll
    /\ PushSucceeded
    /\ Len(gets) >= 1

(* C18, as stated: the resolved status is the value of the first candidate *)
(* field that is present, whatever its value.                              *)
Candidates == <<"status", "state", "deploy_status">>
FirstWhere(j, P(_)) ==
    IF \E k \in DOMAIN Candidates : P(j[Candidates[k]])
    THEN j[Candidates[CHOOSE k \in DOMAIN Candidates :
              /\ P(j[Candidates[k]])
              /\ \A m \in 1..(k - 1) : ~P(j[Candidates[m]])]]
    ELSE NoneStr
IsPresent(v) == v # NoneStr
IsNonEmpty(v) == v # NoneStr /\ v # <<>>

C18_FirstPresentFieldWins ==
    \A i \in DOMAIN gets :
        IsResponse(gets[i]) => gets[i][3] = FirstWhere(gets[i][2], IsPresent)

(* C18, amended: the resolved status is the value of the first candidate   *)
(* field that is present and non-empty; a later candidate is consulted     *)
(* when every earlier one is absent or empty; with none, it is None.       *)
C18_FirstNonEmptyFieldWins ==
    \A i \in DOMAIN gets :
        IsResponse(gets[i]) => gets[i][3] = FirstWhere(gets[i][2], IsNonEmpty)

C18_Witness ==
    /\ Len(gets) >= 1
    /\ gets[1] = Got(Body(EmptyStr, s_done, NoneStr), s_done)
    /\ outcome = "Succeeded"

(* C16, as stated: the dirty-worktree validation comes before the          *)
(* credential is materialized, so a DirectHead run that is refused for a   *)
(* dirty tree has created no key file.                                     *)
C16_RefusedBeforeKeyWritten ==
    (DirectHead /\ raised = DirtyRefusal) => ssh_key_path = None

Index(P(_)) == {i \in DOMAIN cmds : P(cmds[i])}
Before(P(_), Q(_)) == \A i \in Index(P), k \in Index(Q) : i < k

(* C16, amended: the credential is materialized first, then the dirty      *)
(* worktree is validated (DirectHead only), then the payload is prepared,  *)
(* then the push is issued; a DirectHead run refused for a dirty tree with *)
(* key material supplied has created the key file before the refusal, and *)
(* has removed it when it terminates.                                      *)
C16_KeyWrittenBeforeValidation ==
    /\ (git_ssh_key /\ pc # "main") => ssh_key_path = KeyPath
    /\ ssh_key_path = KeyPath => git_ssh_key
    /\ (cmds # <<>> /\ DirectHead) => IsGitStatus(cmds[1])
    /\ Before(IsGitStatus, IsRemoteAdd) /\ Before(IsRemoteAdd, IsPush)
    /\ Before(IsClone, IsCommit) /\ Before(IsCommit, IsPush)
    /\ (PushIssued /\ DirectHead) => Index(IsRemoteAdd) # {}
    /\ (PushIssued /\ ~DirectHead) => (Index(IsClone) # {} /\ Index(IsCommit) # {})
    /\ raised = DirtyRefusal =>
          /\ DirectHead /\ Len(cmds) = 1
          /\ Exited => KeyPath \notin fs

C16_Witness ==
    /\ Exited
    /\ raised = DirtyRefusal
    /\ git_ssh_key = TRUE
    /\ ssh_key_path = KeyPath
    /\ KeyPath \notin fs

----------------------------------------------------------------------------
Staging == pc \in {"ad_add", "ad_commit", "ad_push"}

(* C14: in ArtifactDir mode, whatever the clone held before and whatever   *)
(* the artifact directory holds, when the changes are staged the clone's   *)
(* working tree has exactly the top-level entries of the artifact          *)
(* directory plus .git, and no entry that only the prior clone had.        *)
C14_TreeIsArtifactPlusGit ==
    Staging => /\ tree = artifactEntries \cup {GitDir}
               /\ tree \cap (priorEntries \ artifactEntries) = {}

C14_Witness ==
    /\ pc = "ad_commit"
    /\ "old.txt" \in priorEntries \ artifactEntries
    /\ "index.html" \in tree
    /\ "old.txt" \notin tree

CommitFailedWithChanges(c) == IsCommit(c) /\ c.rc \notin {0, 1}

(* C17, as stated: in ArtifactDir mode a failed commit is tolerated only   *)
(* when there is nothing to commit; a commit that exits nonzero for any    *)
(* other reason aborts the run and the push is never issued.               *)
C17_OtherCommitFailureAborts ==
    (\E i \in DOMAIN cmds : CommitFailedWithChanges(cmds[i]))
        => /\ ~PushIssued
           /\ pc \in {"ad_finally", "main_finally", "exited"}
           /\ raised = CommandFailed

----------------------------------------------------------------------------
KeyWritten == keyfile # NoFile
DecodesToKey(k) == B64Decode(k).ok /\ Contains(B64Decode(k).bytes, Marker)

(* C15, as stated: for every non-empty key material, the key file holds    *)
(* the base64-decoded bytes when the material decodes to bytes containing  *)
(* the marker, and otherwise the bytes of the original string verbatim,    *)
(* leading and trailing whitespace included; its mode is owner-only.       *)
C15_FileHoldsDecodedOrOriginal ==
    KeyWritten =>
        /\ keyfile.content = IF DecodesToKey(key_material)
                             THEN B64Decode(key_material).bytes
                             ELSE Encode(key_material)
        /\ keyfile.mode = OwnerOnly

----------------------------------------------------------------------------
Words(display) == {display[k] : k \in DOMAIN display}
SecretValues == {GhcrTokenValue}

(* C12, as stated: no secret value (SSH key material, status bearer token, *)
(* registry token) appears in the text the command runner echoes for an    *)
(* invoked command, in any run of either program; here for dagger.py.      *)
C12_NoSecretInEcho ==
    \A i \in DOMAIN dagger.echo : Words(dagger.echo[i]) \cap SecretValues = {}

----------------------------------------------------------------------------
Other(p) == CHOOSE q \in Procs : q # p
UsesKey(p) == conc.key[p] # None /\ conc.pc[p] \notin {"main_finally", "exited"}
UsesClone(p) == conc.pc[p] \in {"ad_clone", "ad_push"}
UsesRemote(p) == conc.pc[p] = "dh_push"

(* C20, as stated: two concurrent invocations, two DirectHead runs in one  *)
(* repository included, never share the name of a transient resource, so   *)
(* under every interleaving each push is sent to the invocation's own URL  *)
(* and no invocation removes or overwrites a resource the other still      *)
(* uses: key file, clone directory, temporary remote.                      *)
C20_RunsDoNotInterfere ==
    \A p \in Procs :
        /\ conc.pushedTo[p] \in {<<>>, <<Url(p)>>}
        /\ UsesKey(p) => conc.key[p] \in conc.files /\ conc.key[p] # conc.key[Other(p)]
        /\ UsesClone(p) => conc.tmp[p] \in conc.files /\ conc.tmp[p] # conc.tmp[Other(p)]
        /\ UsesRemote(p) => conc.remote = <<Url(p)>>

====
